---- MODULE Spec2Model ----
(***************************************************************************)
(* A model of apistar/apischema.py: the construction of the API schema     *)
(* document from the application's route list.                             *)
(*                                                                         *)
(*   Spec      APISchema.build run step by step over a route list          *)
(*             (get_schema_url's loop, then get_schema_content's loop).    *)
(*   SpecLink  get_link, then render_form, applied to one arbitrary route. *)
(***************************************************************************)
EXTENDS Integers, Sequences, FiniteSets, TLC

VARIABLES routes, base_url, pc, idx, url, content, document, route, link, form

vars == <<routes, base_url, pc, idx, url, content, document, route, link, form>>

(* ------------------------------ bounds -------------------------------- *)

MaxRoutes == 2
MaxParams == 2

(* ------------------------------ values -------------------------------- *)

\* Python's None, and the TypeError that issubclass raises for a non-class.
None == [none |-> TRUE]
RaisedTypeError == [raised |-> "TypeError"]

\* inspect.Signature.empty: the parameter has no annotation.
Empty == "empty"

\* The annotations a view parameter can carry.  "NonClass" is an annotation
\* that is not a class (a string annotation such as 'str'); "Component" is a
\* class that is neither primitive nor a schema type (http.Request, ...).
Annotations == {Empty, "str", "int", "SchemaString", "SchemaObject", "Component", "NonClass"}

primitive_types == {"str", "int"}

\* issubclass(t, schema_types); raises TypeError when t is not a class.
IsSchemaType(t) == t \in {"SchemaString", "SchemaObject"}

\* issubclass(t, schema.Object)
IsSchemaObject(t) == t = "SchemaObject"

IsClass(t) == t # "NonClass"

(* A path is a sequence of segments: "/items/{id}" is <<Lit("items"), Var("id")>>. *)
Lit(s) == [var |-> FALSE, text |-> s]
Var(s) == [var |-> TRUE, text |-> s]

\* URITemplate(path).variable_names
VariableNames(path) == {path[i].text : i \in {j \in DOMAIN path : path[j].var}}

\* urljoin(base, url) for an absolute, non-empty path: the base's own path
\* is dropped, its scheme and host are kept; a missing base returns the path.
urljoin(base, path) ==
    IF base = None
    THEN [origin |-> "", path |-> path]
    ELSE [origin |-> base.origin, path |-> path]

(* --------------------------- get_link --------------------------------- *)

AnnotatedTypeNoDefault(param) == param.annotation

\* lines 66-69
AnnotatedType(param) ==
    IF param.annotation = Empty THEN "str" ELSE param.annotation

WriteMethodsNoPatch == {"POST", "PUT"}

\* line 78
WriteMethods == {"POST", "PUT", "PATCH"}

\* line 73
ParamSchema(param) == "String"

ClassifyPrimitiveFirst(param, variable_names, method) ==
    LET t == AnnotatedType(param) IN
    IF (t \in primitive_types) \/ IsSchemaType(t)
    THEN IF method \in WriteMethods
         THEN IF IsSchemaObject(t)
              THEN [location |-> "body", required |-> TRUE]
              ELSE [location |-> "form", required |-> FALSE]
         ELSE [location |-> "query", required |-> FALSE]
    ELSE IF param.name \in variable_names
    THEN [location |-> "path", required |-> TRUE]
    ELSE [location |-> "none", required |-> FALSE]

ClassifyFormRequired(param, variable_names, method) ==
    LET t == AnnotatedType(param) IN
    IF param.name \in variable_names
    THEN [location |-> "path", required |-> TRUE]
    ELSE IF (t \in primitive_types) \/ IsSchemaType(t)
    THEN IF method \in WriteMethods
         THEN IF IsSchemaObject(t)
              THEN [location |-> "body", required |-> TRUE]
              ELSE [location |-> "form", required |-> TRUE]
         ELSE [location |-> "query", required |-> FALSE]
    ELSE [location |-> "none", required |-> FALSE]

\* lines 71-85: the location and the required flag of one parameter.
\* location "none" is the code's location = None.
Classify(param, variable_names, method) ==
    LET t == AnnotatedType(param) IN
    IF param.name \in variable_names
    THEN [location |-> "path", required |-> TRUE]
    ELSE IF (t \in primitive_types) \/ IsSchemaType(t)
    THEN IF method \in WriteMethods
         THEN IF IsSchemaObject(t)
              THEN [location |-> "body", required |-> TRUE]
              ELSE [location |-> "form", required |-> FALSE]
         ELSE [location |-> "query", required |-> FALSE]
    ELSE [location |-> "none", required |-> FALSE]

\* line 77: issubclass is reached only when the two tests before it fail,
\* and raises TypeError when its first argument is not a class.
Raises(param, variable_names) ==
    LET t == AnnotatedType(param) IN
    /\ param.name \notin variable_names
    /\ t \notin primitive_types
    /\ ~IsClass(t)

\* line 88
MakeField(param, c) ==
    [name |-> param.name, location |-> c.location,
     required |-> c.required, schema |-> ParamSchema(param)]

RECURSIVE FieldsFrom(_, _, _, _, _)
\* lines 63-89: the loop over the signature's parameters from position k on,
\* with the fields collected so far.
FieldsFrom(params, k, variable_names, method, fields) ==
    IF k > Len(params) THEN fields
    ELSE LET c == Classify(params[k], variable_names, method) IN
         FieldsFrom(params, k + 1, variable_names, method,
                    IF c.location # "none"
                    THEN Append(fields, MakeField(params[k], c))
                    ELSE fields)

RECURSIVE FieldsFromPrepend(_, _, _, _, _)
FieldsFromPrepend(params, k, variable_names, method, fields) ==
    IF k > Len(params) THEN fields
    ELSE LET c == Classify(params[k], variable_names, method) IN
         FieldsFromPrepend(params, k + 1, variable_names, method,
                    IF c.location # "none"
                    THEN <<MakeField(params[k], c)>> \o fields
                    ELSE fields)

GetFieldsReversed(r) ==
    FieldsFromPrepend(r.view.params, 1, VariableNames(r.path), r.method, <<>>)

\* lines 58-89
GetFields(r) ==
    FieldsFrom(r.view.params, 1, VariableNames(r.path), r.method, <<>>)

\* line 77, within the loop of line 64: the first parameter whose test
\* raises ends get_link with the TypeError.
GetLinkRaises(r) ==
    \E k \in DOMAIN r.view.params : Raises(r.view.params[k], VariableNames(r.path))

\* lines 53-91
get_link(r) ==
    IF GetLinkRaises(r) THEN RaisedTypeError
    ELSE [url |-> r.path, action |-> r.method, fields |-> GetFields(r)]

(* --------------------------- render_form ------------------------------ *)

Properties(l) ==
    [n \in {l.fields[i].name : i \in DOMAIN l.fields} |->
        LET last == CHOOSE i \in DOMAIN l.fields :
                       /\ l.fields[i].name = n
                       /\ \A j \in DOMAIN l.fields : l.fields[j].name = n => j <= i
            s == l.fields[last].schema
        IN IF s = "none" THEN "String" ELSE s]

RenderFormKeepRequired(l) ==
    LET req == SelectSeq(l.fields, LAMBDA f : f.required) IN
    [properties |-> Properties(l),
     required |-> [i \in 1..Len(req) |-> req[i].name]]

\* lines 95-100: the Object schema handed to coreschema.render_to_form.
\* dict() keeps, for a name, the schema of the last field with that name.
RenderFormSchema(l) ==
    [properties |-> Properties(l), required |-> <<>>]

(* ------------------------------ views --------------------------------- *)

Param(n, a) == [name |-> n, annotation |-> a]

View(i, n, x, ps) == [id |-> i, name |-> n, exclude_from_schema |-> x, params |-> ps]

\* lines 104-105
serve_schema ==
    View("serve_schema", "serve_schema", TRUE, <<Param("schema", "Component")>>)

\* lines 112-113
serve_schema_js ==
    View("serve_schema_js", "serve_schema_js", TRUE,
         <<Param("schema", "Component"), Param("templates", "Component")>>)

\* lines 122-123
serve_docs ==
    View("serve_docs", "serve_docs", TRUE,
         <<Param("schema", "Component"), Param("templates", "Component")>>)

\* Views of an application: two different functions that share a __name__,
\* a view excluded from the schema, and one with a string annotation.
get_item == View("get_item", "get_item", FALSE, <<Param("id", Empty)>>)
create_a == View("items.create", "create", FALSE, <<Param("item", "SchemaObject")>>)
create_b == View("users.create", "create", FALSE, <<Param("q", "str")>>)
hidden == View("hidden", "hidden", TRUE, <<Param("q", "int")>>)
search == View("search", "search", FALSE, <<Param("q", "NonClass")>>)

Route(p, m, v) == [path |-> p, method |-> m, view |-> v]

AppRoutes ==
    { Route(<<Lit("schema")>>, "GET", serve_schema),
      Route(<<Lit("docs"), Lit("schema")>>, "GET", serve_schema),
      Route(<<Lit("schema.js")>>, "GET", serve_schema_js),
      Route(<<Lit("docs")>>, "GET", serve_docs),
      Route(<<Lit("items"), Var("id")>>, "GET", get_item),
      Route(<<Lit("items")>>, "POST", create_a),
      Route(<<Lit("items")>>, "GET", create_a),
      Route(<<Lit("users")>>, "POST", create_b),
      Route(<<Lit("hidden")>>, "GET", hidden),
      Route(<<Lit("search")>>, "GET", search) }

RouteLists == UNION {[1..n -> AppRoutes] : n \in 0..MaxRoutes}

BaseUrls ==
    { None,
      [origin |-> "http://example.com", path |-> <<Lit("api")>>],
      [origin |-> "https://api.example.com", path |-> <<>>] }

ParamNames == {"id", "slug", "q"}
Params == {Param(n, a) : n \in ParamNames, a \in Annotations}

\* inspect.signature: parameter names are pairwise distinct.
Signatures ==
    UNION {{s \in [1..n -> Params] :
              \A i, j \in 1..n : s[i].name = s[j].name => i = j} : n \in 0..MaxParams}

Methods == {"GET", "POST", "PUT", "PATCH", "DELETE"}

Paths ==
    { <<Lit("items")>>,
      <<Lit("items"), Var("id")>>,
      <<Lit("items"), Var("id"), Var("slug")>> }

LinkRoutes ==
    {Route(p, m, View("view", "view", FALSE, s)) :
        p \in Paths, m \in Methods, s \in Signatures}

EmptyDict == [k \in {} |-> None]

Put(d, k, v) == [x \in DOMAIN d \cup {k} |-> IF x = k THEN v ELSE d[x]]

(* ------------------------ APISchema.build ----------------------------- *)

Init ==
    /\ routes \in RouteLists
    /\ base_url \in BaseUrls
    /\ pc = "idle"
    /\ idx = 0
    /\ url = None
    /\ content = EmptyDict
    /\ document = None
    /\ route = None
    /\ link = None
    /\ form = None

\* lines 20-22: build is called and enters get_schema_url.
Build ==
    /\ pc \in {"idle", "raised"}
    /\ pc' = "get_schema_url"
    /\ idx' = 1
    /\ UNCHANGED <<routes, base_url, url, content, document, route, link, form>>

IsModuleView(view) == view.exclude_from_schema

\* line 32: route.view is serve_schema
IsServeSchema(view) == view.id = serve_schema.id

\* lines 31-34, then 23 and 42: one iteration of get_schema_url's loop; its
\* return enters get_schema_content with an empty dictionary.
GetSchemaUrlStep ==
    /\ pc = "get_schema_url"
    /\ IF idx > Len(routes)
       THEN /\ url' = None
            /\ pc' = "get_schema_content"
            /\ idx' = 1
            /\ content' = EmptyDict
       ELSE IF IsServeSchema(routes[idx].view)
       THEN /\ url' = urljoin(base_url, routes[idx].path)
            /\ pc' = "get_schema_content"
            /\ idx' = 1
            /\ content' = EmptyDict
       ELSE /\ idx' = idx + 1
            /\ UNCHANGED <<url, pc, content>>
    /\ UNCHANGED <<routes, base_url, document, route, link, form>>

ExcludeNever(view) == FALSE

RoutesMarked == [routes EXCEPT ![idx].view.exclude_from_schema = TRUE]

\* lines 43-49: the iteration reads the route and its view and writes neither.
RoutesAfterStep == routes

\* line 45: getattr(view, 'exclude_from_schema', False)
ExcludeFromSchema(view) == view.exclude_from_schema

\* lines 43-50: one iteration of get_schema_content's loop.
GetSchemaContentStep ==
    /\ pc = "get_schema_content"
    /\ idx <= Len(routes)
    /\ LET view == routes[idx].view IN
       IF ExcludeFromSchema(view)
       THEN /\ idx' = idx + 1
            /\ UNCHANGED <<content, pc>>
       ELSE LET l == get_link(routes[idx]) IN
            IF l = RaisedTypeError
            THEN /\ pc' = "raised"
                 /\ UNCHANGED <<content, idx>>
            ELSE /\ content' = Put(content, view.name, l)
                 /\ idx' = idx + 1
                 /\ pc' = pc
    /\ routes' = RoutesAfterStep
    /\ UNCHANGED <<base_url, url, document, route, link, form>>

\* lines 50 and 24: get_schema_content returns, build returns the document.
Return ==
    /\ pc = "get_schema_content"
    /\ idx > Len(routes)
    /\ document' = [url |-> url, content |-> content]
    /\ pc' = "idle"
    /\ UNCHANGED <<routes, base_url, url, content, idx, route, link, form>>

Next == Build \/ GetSchemaUrlStep \/ GetSchemaContentStep \/ Return

Spec == Init /\ [][Next]_vars

(* --------------------- get_link on a single route --------------------- *)

InitLink ==
    /\ route \in LinkRoutes
    /\ pc = "get_link"
    /\ link = None
    /\ form = None
    /\ routes = <<>>
    /\ base_url = None
    /\ idx = 0
    /\ url = None
    /\ content = EmptyDict
    /\ document = None

\* lines 53-91: get_link(route) returns a Link or raises.
GetLinkCall ==
    /\ pc = "get_link"
    /\ link' = get_link(route)
    /\ pc' = IF link' = RaisedTypeError THEN "raised" ELSE "returned"
    /\ UNCHANGED <<routes, base_url, idx, url, content, document, route, form>>

\* lines 94-101: render_form(link)
RenderFormCall ==
    /\ pc = "returned"
    /\ form' = RenderFormSchema(link)
    /\ pc' = "rendered"
    /\ UNCHANGED <<routes, base_url, idx, url, content, document, route, link>>

NextLink == GetLinkCall \/ RenderFormCall

SpecLink == InitLink /\ [][NextLink]_vars

(* ------------------------- claims: get_link --------------------------- *)

LinkReturned == pc \in {"returned", "rendered"}

ViewParams == route.view.params

TemplateVars == VariableNames(route.path)

FieldNamed(n, loc, req) ==
    \E i \in DOMAIN link.fields :
        /\ link.fields[i].name = n
        /\ link.fields[i].location = loc
        /\ link.fields[i].required = req

\* C1: every parameter whose name is a URI template variable has a field
\* with location 'path' and required = True, whatever its annotation and
\* whatever the method.
C1_PathParamsArePathFields ==
    LinkReturned =>
        \A k \in DOMAIN ViewParams :
            ViewParams[k].name \in TemplateVars
                => FieldNamed(ViewParams[k].name, "path", TRUE)

C1_Witness ==
    /\ LinkReturned
    /\ route.method = "POST"
    /\ \E k \in DOMAIN ViewParams :
          /\ ViewParams[k].name \in TemplateVars
          /\ ViewParams[k].annotation = "SchemaObject"
    /\ \E k \in DOMAIN ViewParams :
          /\ ViewParams[k].name \in TemplateVars
          /\ ViewParams[k].annotation = "NonClass"

AnnotatedValueTypes == {"str", "int", "SchemaString", "SchemaObject"}

\* C2: every field has one of the four locations, and a parameter that is
\* not a template variable and whose type is primitive or a schema type is
\* 'body' (schema.Object subclass) or 'form' under POST, PUT and PATCH and
\* 'query' under every other method.
C2_LocationByMethod ==
    LinkReturned =>
        /\ \A i \in DOMAIN link.fields :
              link.fields[i].location \in {"path", "query", "form", "body"}
        /\ \A k \in DOMAIN ViewParams :
              LET p == ViewParams[k] IN
              (p.name \notin TemplateVars /\ p.annotation \in AnnotatedValueTypes)
                => \E i \in DOMAIN link.fields :
                      /\ link.fields[i].name = p.name
                      /\ link.fields[i].location =
                            IF route.method \in {"POST", "PUT", "PATCH"}
                            THEN IF p.annotation = "SchemaObject" THEN "body" ELSE "form"
                            ELSE "query"

C2_Witness ==
    /\ LinkReturned
    /\ route.method = "PATCH"
    /\ \E i \in DOMAIN link.fields : link.fields[i].location = "body"
    /\ \E i \in DOMAIN link.fields : link.fields[i].location = "form"

\* C3: a parameter with no annotation never makes get_link raise, and when
\* its name is not a template variable it has a field, 'form' under POST,
\* PUT and PATCH and 'query' under every other method.
C3_UnannotatedIsStr ==
    /\ LinkReturned =>
          \A k \in DOMAIN ViewParams :
              LET p == ViewParams[k] IN
              (p.name \notin TemplateVars /\ p.annotation = Empty)
                => FieldNamed(p.name,
                              IF route.method \in {"POST", "PUT", "PATCH"}
                              THEN "form" ELSE "query",
                              FALSE)
    /\ (pc = "raised" /\ route # None) =>
          \E k \in DOMAIN ViewParams : ViewParams[k].annotation # Empty

C3_Witness ==
    /\ LinkReturned
    /\ route.method = "PUT"
    /\ Len(ViewParams) = 2
    /\ \A k \in DOMAIN ViewParams :
          ViewParams[k].annotation = Empty /\ ViewParams[k].name \notin TemplateVars

\* C4: every field carries the name of a parameter of the view, and it is
\* required exactly when its location is 'path' or 'body'.
C4_RequiredIffPathOrBody ==
    LinkReturned =>
        \A i \in DOMAIN link.fields :
            /\ \E k \in DOMAIN ViewParams : ViewParams[k].name = link.fields[i].name
            /\ link.fields[i].required <=> link.fields[i].location \in {"path", "body"}

C4_Witness ==
    /\ LinkReturned
    /\ \E i \in DOMAIN link.fields : link.fields[i].location = "form"
    /\ \E i \in DOMAIN link.fields : link.fields[i].location = "body"

YieldsField(p) ==
    \/ p.name \in TemplateVars
    \/ p.annotation \in AnnotatedValueTypes \cup {Empty}

\* C9: the fields are, in signature order, exactly the parameters that are
\* template variables or have a primitive or schema type, one field each
\* (so injected components and unmatched template variables yield none),
\* and the 'path' fields are exactly the parameters named by the template.
C9_OneFieldPerParamInOrder ==
    LinkReturned =>
        LET kept == SelectSeq(ViewParams, YieldsField) IN
        /\ Len(link.fields) = Len(kept)
        /\ \A i \in DOMAIN link.fields : link.fields[i].name = kept[i].name
        /\ \A i, j \in DOMAIN link.fields :
              link.fields[i].name = link.fields[j].name => i = j
        /\ {link.fields[i].name :
               i \in {j \in DOMAIN link.fields : link.fields[j].location = "path"}}
             = {ViewParams[k].name : k \in DOMAIN ViewParams} \cap TemplateVars

C9_Witness ==
    /\ LinkReturned
    /\ Len(ViewParams) = 2
    /\ ViewParams[1].annotation = "Component"
    /\ ViewParams[1].name \notin TemplateVars
    /\ ViewParams[2].name \in TemplateVars
    /\ \E v \in TemplateVars : \A k \in DOMAIN ViewParams : ViewParams[k].name # v
    /\ Len(link.fields) = 1

\* C10: every field carries a String schema, and the rendered form has one
\* String property per field and an empty required list, also when a field
\* of the link is required.
C10_FormDropsRequired ==
    /\ LinkReturned =>
          \A i \in DOMAIN link.fields : link.fields[i].schema = "String"
    /\ pc = "rendered" =>
          /\ form.required = <<>>
          /\ DOMAIN form.properties = {link.fields[i].name : i \in DOMAIN link.fields}
          /\ \A n \in DOMAIN form.properties : form.properties[n] = "String"

C10_Witness ==
    /\ pc = "rendered"
    /\ \E i \in DOMAIN link.fields : link.fields[i].location = "path"
    /\ \E i \in DOMAIN link.fields : link.fields[i].location = "body"
    /\ \E k \in DOMAIN ViewParams : ViewParams[k].annotation = "int"

(* -------------------- claims: APISchema.build ------------------------- *)

Exposed == {i \in DOMAIN routes : ~routes[i].view.exclude_from_schema}

\* C5: the document's content holds the Link of every route whose view is
\* not excluded from the schema.
C5_EveryExposedRouteHasItsLink ==
    document # None =>
        \A i \in Exposed :
            \E k \in DOMAIN document.content :
                document.content[k] = get_link(routes[i])

ServeSchemaRoutes == {i \in DOMAIN routes : routes[i].view = serve_schema}

ExpectedUrl ==
    IF ServeSchemaRoutes = {}
    THEN None
    ELSE LET first == CHOOSE i \in ServeSchemaRoutes :
                         \A j \in ServeSchemaRoutes : i <= j
         IN urljoin(base_url, routes[first].path)

\* C7: the schema URL is urljoin(base_url, path) of the first route whose
\* view is serve_schema, and None when there is no such route.
C7_UrlOfFirstServeSchemaRoute ==
    /\ pc = "get_schema_content" => url = ExpectedUrl
    /\ document # None => document.url = ExpectedUrl

C7_Witness ==
    /\ pc = "get_schema_content"
    /\ base_url # None
    /\ Len(routes) = 2
    /\ routes[1].view = serve_schema
    /\ routes[2].view = serve_schema
    /\ routes[1].path # routes[2].path

FromExposedRoutes(c) ==
    /\ \A k \in DOMAIN c :
          \E i \in Exposed : routes[i].view.name = k /\ c[k] = get_link(routes[i])
    /\ Cardinality(DOMAIN c) <= Cardinality(Exposed)

\* C8: every entry of the content is the Link of a route whose view is not
\* excluded, under that view's __name__, and there are no more entries than
\* such routes.
C8_OnlyExposedRoutesInContent ==
    /\ FromExposedRoutes(content)
    /\ document # None => FromExposedRoutes(document.content)

C8_Witness ==
    /\ document # None
    /\ Len(routes) = 2
    /\ routes[1].view = get_item
    /\ routes[2].view = serve_schema
    /\ DOMAIN document.content = {"get_item"}

====
